---- MODULE Spec2Model ----
(***************************************************************************)
(* Model of fcgi-bin/rf.py: the RFDevice transmit session that plays a     *)
(* shutter command out on a GPIO pin through an on-off-keyed transmitter.  *)
(*                                                                         *)
(* One RFDevice object is modelled.  Its fields are the variables          *)
(* tx_enabled .. tx_length; gpio_mode, gpio_direction and gpio_level are   *)
(* the state the RPi.GPIO library keeps for the process and the pin.  The  *)
(* program is single threaded, so every public method call is one atomic   *)
(* action.  call, ret, ops and sent record the last call: its arguments,   *)
(* its result, the GPIO operations it performed in order, and the local    *)
(* `sent` trace string that _tx_bin builds; inner is what the tx_code call  *)
(* made by tx_shutter_cmd returned.                                        *)
(*                                                                         *)
(* Python integers are unbounded and the shipped codes need 40 bits, so a  *)
(* code is held as two 20-bit limbs <<hi, lo>> with value hi * 2^20 + lo.  *)
(* Python strings that are searched (device keys and tokens) are           *)
(* sequences of one-character strings.  An optional argument is <<>> for   *)
(* None and <<v>> for the value v.                                         *)
(***************************************************************************)
EXTENDS Integers, Sequences, FiniteSets, TLC

VARIABLES tx_enabled, tx_proto, tx_pulselength, tx_repeat_delay,
          tx_sync_count, tx_sync_delay, tx_repeat, tx_length,
          gpio_mode, gpio_direction, gpio_level,
          call, ret, ops, sent, inner

vars == <<tx_enabled, tx_proto, tx_pulselength, tx_repeat_delay,
          tx_sync_count, tx_sync_delay, tx_repeat, tx_length,
          gpio_mode, gpio_direction, gpio_level,
          call, ret, ops, sent, inner>>

----------------------------------------------------------------------------
(* Bounds of the model *)

\* largest repeat count a session is constructed with
MaxRepeat == 2

\* largest code width passed to tx_code besides the default width
MaxWidth == 2

\* the pulse length (microseconds) used where a caller overrides it
PulseOverride == 50

\* the pin write of a call whose sleep an interrupt arrives in
InterruptAt == 3

----------------------------------------------------------------------------
(* Python values *)

None == <<>>

Some(v) == <<v>>

\* Python truthiness of an optional integer: None and 0 are false
Truthy(x) == x # None /\ x[1] # 0

Limb == 2^20

\* the code with value n, for n below 2^20
Code(n) == <<0, n>>

----------------------------------------------------------------------------
(* Module constants *)

RFProtocol(pl, rd, sc, sd, sh, sl, zh, zl, oh, ol) ==
    [pulselength |-> pl, repeat_delay |-> rd,
     sync_count |-> sc, sync_delay |-> sd,
     sync_high |-> sh, sync_low |-> sl,
     zero_high |-> zh, zero_low |-> zl,
     one_high |-> oh, one_low |-> ol]

\* the tuple PROTOCOLS, indexed from 0 as in Python; entry 0 is None
PROTOCOLS ==
    [i \in 0..2 |->
        CASE i = 0 -> None
          [] i = 1 -> RFProtocol(40, 9600, 1, 0, 4750, 1550, 8, 19, 17, 10)
          [] i = 2 -> RFProtocol(40, 15200, 12, 3500, 360, 400, 9, 20, 18, 10)]

\* len(PROTOCOLS)
len_PROTOCOLS == Cardinality(DOMAIN PROTOCOLS)

\* device keys, as character sequences
K_kitchen == <<"k","i","t","c","h","e","n">>
K_lroom_l == <<"l","r","o","o","m","_","l">>
K_lroom_m == <<"l","r","o","o","m","_","m">>
K_lroom_r == <<"l","r","o","o","m","_","r">>
K_house == <<"h","o","u","s","e">>

\* DEVICE_CODES in insertion order; each code is <<hi, lo>>:
\*   kitchen  95357333777 95357333811 95357333845    = 90939 * 2^20 + ...
\*   lroom_l  653685920017 653685920051 653685920085 = 623403 * 2^20 + ...
\*   lroom_m  181260607761 181260607795 181260607829 = 172863 * 2^20 + ...
\*   lroom_r  99640512785 99640512819 99640512853    = 95024 * 2^20 + ...
\*   house    86755979281 86755979315 86755979349    = 82736 * 2^20 + ...
DEVICE_CODES ==
    << [dev |-> K_kitchen,
        cmds |-> [up |-> <<90939, 880913>>, down |-> <<90939, 880947>>,
                  stop |-> <<90939, 880981>>]],
       [dev |-> K_lroom_l,
        cmds |-> [up |-> <<623403, 495889>>, down |-> <<623403, 495923>>,
                  stop |-> <<623403, 495957>>]],
       [dev |-> K_lroom_m,
        cmds |-> [up |-> <<172863, 614673>>, down |-> <<172863, 614707>>,
                  stop |-> <<172863, 614741>>]],
       [dev |-> K_lroom_r,
        cmds |-> [up |-> <<95024, 626961>>, down |-> <<95024, 626995>>,
                  stop |-> <<95024, 627029>>]],
       [dev |-> K_house,
        cmds |-> [up |-> <<82736, 995345>>, down |-> <<82736, 995379>>,
                  stop |-> <<82736, 995413>>]] >>

\* the default of tx_code's tx_length parameter and of the constructor's
DefaultLength == 40

----------------------------------------------------------------------------
(* The object and library state handled by the methods, as one record *)

Self(intr) ==
    [tx_enabled |-> tx_enabled, tx_proto |-> tx_proto,
     tx_pulselength |-> tx_pulselength, tx_repeat_delay |-> tx_repeat_delay,
     tx_sync_count |-> tx_sync_count, tx_sync_delay |-> tx_sync_delay,
     tx_repeat |-> tx_repeat, tx_length |-> tx_length,
     gpio_mode |-> gpio_mode, gpio_direction |-> gpio_direction,
     gpio_level |-> gpio_level,
     ops |-> <<>>, sent |-> <<>>, inner |-> "none", fuse |-> intr]

\* the outcome of a method: the state it leaves and what it returned;
\* r is "True", "False", or "raise" when an exception left the method
Ret(self, r) == [self |-> self, ret |-> r]

\* one GPIO operation in the log of a call
Op(op, arg, us) == [op |-> op, arg |-> arg, us |-> us]

----------------------------------------------------------------------------
(* The RPi.GPIO calls the program makes.  GPIO.setmode fixes the numbering *)
(* scheme for the process, GPIO.cleanup() with no argument returns every   *)
(* channel that was set up to input and releases the numbering scheme, and *)
(* GPIO.setup and GPIO.output raise RuntimeError when the numbering scheme *)
(* is not set; GPIO.output also raises when the channel is not an output.  *)
(* Every write is followed by a _sleep, whose time.sleep loop is where a   *)
(* KeyboardInterrupt reaches the program: self.fuse = k > 0 says that the  *)
(* sleep after the k-th write of the call is interrupted, 0 that none is.  *)

\* an exception leaves the running method: logged, nothing else changes
Raise(self, what) ==
    Ret([self EXCEPT !.ops = Append(@, Op("raise", what, 0))], "raise")

\* GPIO.setup(self.gpio, GPIO.OUT) and GPIO.setup(self.gpio, GPIO.IN)
GPIO_setup(self, direction) ==
    IF self.gpio_mode # "BCM"
    THEN Raise(self, "setup")
    ELSE Ret([self EXCEPT !.gpio_direction = direction,
                          !.ops = Append(@, Op("setup", direction, 0))],
             "True")

\* GPIO.output(self.gpio, level) followed by self._sleep(us / 1000000):
\* the level is written and then held for us microseconds
GPIO_output(self, level, us) ==
    IF self.gpio_mode # "BCM" \/ self.gpio_direction # "OUT"
    THEN Raise(self, "output")
    ELSE LET w == [self EXCEPT !.gpio_level = level,
                               !.ops = Append(@, Op("output", level, us)),
                               !.fuse = IF @ > 0 THEN @ - 1 ELSE 0]
         IN  IF self.fuse = 1 THEN Raise(w, "sleep") ELSE Ret(w, "True")

\* GPIO.cleanup()
GPIO_cleanup(self) ==
    Ret([self EXCEPT !.gpio_mode = "UNSET",
                     !.gpio_direction = "NONE",
                     !.ops = Append(@, Op("cleanup", "ALL", 0))],
        "True")

----------------------------------------------------------------------------
(* RFDevice.enable_tx, disable_tx, cleanup *)

\* enable_tx without its test of tx_enabled
enable_tx_unguarded(self) ==
    GPIO_setup([self EXCEPT !.tx_enabled = TRUE], "OUT")

\* self.tx_enabled = True comes before GPIO.setup, so it stays when that
\* call raises
enable_tx(self) ==
    IF ~self.tx_enabled
    THEN GPIO_setup([self EXCEPT !.tx_enabled = TRUE], "OUT")
    ELSE Ret(self, "True")

\* line 90, after GPIO.setup gave r: skipped when that call raised
disable_tx_done(r) ==
    IF r.ret = "raise" THEN r
    ELSE Ret([r.self EXCEPT !.tx_enabled = FALSE], "True")

disable_tx(self) ==
    IF self.tx_enabled
    THEN disable_tx_done(GPIO_setup(self, "IN"))
    ELSE Ret(self, "True")

\* lines 74-75, after disable_tx gave d; cleanup returns None
cleanup_gpio(d) ==
    IF d.ret = "raise" THEN d
    ELSE Ret(GPIO_cleanup(d.self).self, "None")

cleanup(self) ==
    cleanup_gpio(IF self.tx_enabled THEN disable_tx(self)
                 ELSE Ret(self, "True"))

----------------------------------------------------------------------------
(* format(code, '#0{}b'.format(self.tx_length + 2))[2:] : the binary       *)
(* digits of the code, most significant first, padded with zeros on the    *)
(* left up to tx_length characters; a code that needs more digits keeps    *)
(* them all, so the string is then longer than tx_length.                  *)

RECURSIVE bin(_)

\* bin with the digits in the wrong order, least significant first
bin_lsb_first(n) ==
    IF n < 2 THEN << IF n = 0 THEN "0" ELSE "1" >>
    ELSE << IF n % 2 = 0 THEN "0" ELSE "1" >> \o bin(n \div 2)

\* the binary digits of a natural number below 2^20, as Python's bin()
bin(n) ==
    IF n < 2 THEN << IF n = 0 THEN "0" ELSE "1" >>
    ELSE Append(bin(n \div 2), IF n % 2 = 0 THEN "0" ELSE "1")

\* s padded with "0" on the left to at least width characters
zfill(s, width) ==
    IF Len(s) >= width THEN s
    ELSE [i \in 1..(width - Len(s)) |-> "0"] \o s

\* the binary digits of a code <<hi, lo>>
bin_code(code) ==
    IF code[1] = 0 THEN bin(code[2])
    ELSE bin(code[1]) \o zfill(bin(code[2]), 20)

format_b(code, width) == zfill(bin_code(code), width)

---------------------------------------------------------------------------------------------------------------------------------------------------
(* The pulse primitives: _tx_delay, _tx_waveform, _tx_waveform_irregular,  *)
(* _tx_l0, _tx_l1, _tx_sync.  A method that goes on after a call that may  *)
(* raise is written as that call handed to an operator for the rest of the *)
(* method.                                                                 *)

tx_delay(self, delay) ==
    IF ~self.tx_enabled THEN Ret(self, "False")
    ELSE GPIO_output(self, "LOW", delay)

\* the second half of a waveform: GPIO.output(LOW) and the sleep after it
waveform_low(h, us) ==
    IF h.ret = "raise" THEN h ELSE GPIO_output(h.self, "LOW", us)

tx_waveform(self, highpulses, lowpulses) ==
    IF ~self.tx_enabled THEN Ret(self, "False")
    ELSE waveform_low(
             GPIO_output(self, "HIGH", highpulses * self.tx_pulselength),
             lowpulses * self.tx_pulselength)

\* _tx_waveform_irregular without its check of tx_enabled
tx_waveform_irregular_unguarded(self, highpulses, lowpulses) ==
    waveform_low(GPIO_output(self, "HIGH", highpulses), lowpulses)

\* _tx_waveform_irregular with its durations scaled by the pulse length
tx_waveform_irregular_scaled(self, highpulses, lowpulses) ==
    tx_waveform(self, highpulses, lowpulses)

tx_waveform_irregular(self, highpulses, lowpulses) ==
    IF ~self.tx_enabled THEN Ret(self, "False")
    ELSE waveform_low(GPIO_output(self, "HIGH", highpulses), lowpulses)

\* 0 < self.tx_proto < len(PROTOCOLS)
proto_valid(self) == 0 < self.tx_proto /\ self.tx_proto < len_PROTOCOLS

tx_l0(self) ==
    IF ~proto_valid(self) THEN Ret(self, "False")
    ELSE tx_waveform(self, PROTOCOLS[self.tx_proto].zero_high,
                           PROTOCOLS[self.tx_proto].zero_low)

tx_l1(self) ==
    IF ~proto_valid(self) THEN Ret(self, "False")
    ELSE tx_waveform(self, PROTOCOLS[self.tx_proto].one_high,
                           PROTOCOLS[self.tx_proto].one_low)

tx_sync(self) ==
    IF ~proto_valid(self) THEN Ret(self, "False")
    ELSE tx_waveform_irregular(self, PROTOCOLS[self.tx_proto].sync_high,
                                     PROTOCOLS[self.tx_proto].sync_low)

----------------------------------------------------------------------------
(* _tx_bin: the loops over codes, repetitions, sync pulses and bits.  Each *)
(* loop is a recursion on its index; after every step, `if not ...: return *)
(* False` ends the whole method, and so does an exception.                 *)

\* sent += ch
Mark(self, ch) == [self EXCEPT !.sent = Append(@, ch)]

RECURSIVE tx_bin_syncs(_, _)

\* the sync loop going on after a sync pulse that returned False
tx_bin_syncs_next_unchecked(r, x) ==
    IF r.ret = "raise" THEN r ELSE tx_bin_syncs(r.self, x + 1)

\* after the x-th sync pulse gave r: return, or go round the loop again
tx_bin_syncs_next(r, x) ==
    IF r.ret # "True" THEN r ELSE tx_bin_syncs(r.self, x + 1)

\* for x in range(self.tx_sync_count)
tx_bin_syncs(self, x) ==
    IF x >= self.tx_sync_count THEN Ret(self, "True")
    ELSE tx_bin_syncs_next(tx_sync(Mark(self, "$")), x)

RECURSIVE tx_bin_bits(_, _, _)

\* after bit number byte gave r: return, or go on with the next bit
tx_bin_bits_next(r, code, byte) ==
    IF r.ret # "True" THEN r ELSE tx_bin_bits(r.self, code, byte + 1)

\* for byte in range(0, self.tx_length); code[byte] is code[byte + 1] here
tx_bin_bits(self, code, byte) ==
    IF byte >= self.tx_length THEN Ret(self, "True")
    ELSE tx_bin_bits_next(IF code[byte + 1] = "0"
                          THEN tx_l0(Mark(self, "0"))
                          ELSE tx_l1(Mark(self, "1")),
                          code, byte)

\* the end of one repetition, after the bit loop gave c
tx_bin_pause(c) ==
    IF c.ret # "True" THEN c
    ELSE tx_delay(Mark(c.self, "|"), c.self.tx_repeat_delay)

\* the bit loop of one repetition, after the sync delay gave b
tx_bin_data(b, code) ==
    IF b.ret # "True" THEN b
    ELSE tx_bin_pause(tx_bin_bits(b.self, code, 0))

\* the sync delay made in every repetition, whatever tx_sync_delay is
tx_bin_sync_delay_always(a, code) ==
    IF a.ret # "True" THEN a
    ELSE tx_bin_data(tx_delay(Mark(a.self, "&"), a.self.tx_sync_delay), code)

\* the sync delay of one repetition, after the sync loop gave a
tx_bin_sync_delay(a, code) ==
    IF a.ret # "True" THEN a
    ELSE tx_bin_data(IF a.self.tx_sync_delay > 0
                     THEN tx_delay(Mark(a.self, "&"), a.self.tx_sync_delay)
                     ELSE a,
                     code)

\* the body of one repetition
tx_bin_once(self, code) == tx_bin_sync_delay(tx_bin_syncs(self, 0), code)

RECURSIVE tx_bin_repeats(_, _, _)

\* after repetition n gave r: return, or go on with the next repetition
tx_bin_repeats_next(r, code, n) ==
    IF r.ret # "True" THEN r ELSE tx_bin_repeats(r.self, code, n + 1)

\* the repeat loop running once more than tx_repeat
tx_bin_repeats_once_more(self, code, n) ==
    IF n > self.tx_repeat THEN Ret(self, "True")
    ELSE tx_bin_repeats_next(tx_bin_once(self, code), code, n)

\* for _ in range(0, self.tx_repeat)
tx_bin_repeats(self, code, n) ==
    IF n >= self.tx_repeat THEN Ret(self, "True")
    ELSE tx_bin_repeats_next(tx_bin_once(self, code), code, n)

RECURSIVE tx_bin_codes(_, _, _)

\* after code number i gave r: return, or go on with the next code
tx_bin_codes_next(r, rawcodes, i) ==
    IF r.ret # "True" THEN r ELSE tx_bin_codes(r.self, rawcodes, i + 1)

\* for code in rawcodes
tx_bin_codes(self, rawcodes, i) ==
    IF i > Len(rawcodes) THEN Ret(self, "True")
    ELSE tx_bin_codes_next(tx_bin_repeats(self, rawcodes[i], 0), rawcodes, i)

tx_bin(self, rawcodes) == tx_bin_codes([self EXCEPT !.sent = <<>>], rawcodes, 1)

----------------------------------------------------------------------------
(* RFDevice.tx_code and RFDevice.tx_shutter_cmd *)

\* PROTOCOLS[i].pulselength on line 107: a negative index counts from the
\* end, an index past the end raises IndexError, and entry 0 is None
proto_pulselength(i) ==
    LET j == IF i < 0 THEN i + len_PROTOCOLS ELSE i
    IN  IF j < 1 \/ j >= len_PROTOCOLS THEN None
        ELSE Some(PROTOCOLS[j].pulselength)

\* lines 100-103
set_proto(self, p) ==
    [self EXCEPT !.tx_proto = IF Truthy(p) THEN p[1] ELSE 1]

\* lines 104-107, for a pulse length that can be set
set_pulselength(self, pl) ==
    [self EXCEPT !.tx_pulselength =
        IF Truthy(pl) THEN pl[1]
        ELSE IF @ = 0 THEN proto_pulselength(self.tx_proto)[1]
        ELSE @]

\* lines 108-109
set_length(self, len) ==
    [self EXCEPT !.tx_length = IF Truthy(len) THEN len[1] ELSE @]

\* lines 110-115
tx_code_send(self, codes) ==
    tx_bin(self, [k \in 1..Len(codes) |-> format_b(codes[k], self.tx_length)])

\* lines 104-115, after the protocol is set
tx_code_rest(self, codes, pl, len) ==
    IF ~Truthy(pl) /\ self.tx_pulselength = 0
       /\ proto_pulselength(self.tx_proto) = None
    THEN Raise(self, "index")
    ELSE tx_code_send(set_length(set_pulselength(self, pl), len), codes)

tx_code(self, codes, p, pl, len) ==
    tx_code_rest(set_proto(self, p), codes, pl, len)

\* device in dev, for two character sequences
contains(dev, device) ==
    \E k \in 0..(Len(dev) - Len(device)) :
        SubSeq(dev, k + 1, k + Len(device)) = device

\* DEVICE_CODES.get(dev).get(command); None when the command is not defined
get_cmd(entry, command) ==
    IF command \in DOMAIN entry.cmds THEN Some(entry.cmds[command]) ELSE None

\* if (cmd): command_list.append(cmd)
append_cmd(cmd) ==
    IF cmd # None /\ cmd[1] # <<0, 0>> THEN <<cmd[1]>> ELSE <<>>

RECURSIVE resolve(_, _, _)
\* the loop that fills command_list, in the table's order
resolve(device, command, i) ==
    IF i > Len(DEVICE_CODES) THEN <<>>
    ELSE (IF contains(DEVICE_CODES[i].dev, device)
          THEN append_cmd(get_cmd(DEVICE_CODES[i], command))
          ELSE <<>>)
         \o resolve(device, command, i + 1)

\* line 222, after cleanup gave c; t_ret is what tx_code returned
shutter_return(c, t_ret) ==
    Ret([c.self EXCEPT !.inner = t_ret],
        IF c.ret = "raise" THEN "raise" ELSE "True")

\* line 221, after tx_code gave t
shutter_cleanup(t) ==
    IF t.ret = "raise" THEN Ret([t.self EXCEPT !.inner = t.ret], "raise")
    ELSE shutter_return(cleanup(t.self), t.ret)

\* line 220, after enable_tx gave e
shutter_send(e, command_list) ==
    IF e.ret = "raise" THEN e
    ELSE shutter_cleanup(tx_code(e.self, command_list, None, None,
                                 Some(DefaultLength)))

\* lines 218-222
shutter_bracket(self, command_list) ==
    IF command_list = <<>> THEN Ret(self, "True")
    ELSE shutter_send(enable_tx(self), command_list)

\* tx_shutter_cmd without its test of command_list
tx_shutter_cmd_unconditional(self, device, command) ==
    shutter_send(enable_tx(self), resolve(device, command, 1))

tx_shutter_cmd(self, device, command) ==
    shutter_bracket(self, resolve(device, command, 1))

-----
(* The calls made on the session *)

\* the arguments the calls are made with
Protos == {None, Some(0), Some(1), Some(2), Some(len_PROTOCOLS)}

Pulses == {None, Some(PulseOverride)}

\* the codes of up to w + 1 bits: the last half of them is too wide for w
SmallCodes(w) == {Code(n) : n \in 0..(2^(w + 1) - 1)}

\* 2^40 - 1, 2^41, 0 and a shipped code, for the default width
WideCodes == {<<Limb - 1, Limb - 1>>, <<2 * Limb, 0>>, <<0, 0>>,
              DEVICE_CODES[1].cmds["stop"]}

T_lroom == SubSeq(K_lroom_l, 1, 5)
T_nonexistent == <<"n","o","n","e","x","i","s","t","e","n","t">>

Tokens == {K_kitchen, T_lroom, T_nonexistent}

Commands == {"up", "tilt"}

\* no interrupt, or one in the sleep after the InterruptAt-th write
Interrupts == {0, InterruptAt}

TxCodeArgs ==
    \* one code, every small width
    UNION { { [codes |-> <<c>>, p |-> None, pl |-> None, len |-> Some(w),
               intr |-> 0] : c \in SmallCodes(w) } : w \in 1..MaxWidth }
    \cup
    \* every protocol and pulse length choice
    { [codes |-> cs, p |-> p, pl |-> pl, len |-> Some(MaxWidth), intr |-> 0] :
        cs \in {<<>>, <<Code(1), Code(2)>>}, p \in Protos, pl \in Pulses }
    \cup
    \* the default width
    { [codes |-> <<c>>, p |-> None, pl |-> None, len |-> Some(DefaultLength),
       intr |-> 0] : c \in WideCodes }
    \cup
    \* an interrupted call
    { [codes |-> <<Code(1), Code(2)>>, p |-> None, pl |-> None,
       len |-> Some(MaxWidth), intr |-> InterruptAt] }

NoArgs == [op |-> "", codes |-> <<>>, p |-> None, pl |-> None, len |-> None,
           device |-> <<>>, command |-> "", intr |-> 0]

\* the variables after a method left the outcome r
Becomes(r) ==
    /\ tx_enabled' = r.self.tx_enabled
    /\ tx_proto' = r.self.tx_proto
    /\ tx_pulselength' = r.self.tx_pulselength
    /\ tx_repeat_delay' = r.self.tx_repeat_delay
    /\ tx_sync_count' = r.self.tx_sync_count
    /\ tx_sync_delay' = r.self.tx_sync_delay
    /\ tx_repeat' = r.self.tx_repeat
    /\ tx_length' = r.self.tx_length
    /\ gpio_mode' = r.self.gpio_mode
    /\ gpio_direction' = r.self.gpio_direction
    /\ gpio_level' = r.self.gpio_level
    /\ ops' = r.self.ops
    /\ sent' = r.self.sent
    /\ inner' = r.self.inner
    /\ ret' = r.ret

\* RFDevice(gpio, tx_proto, tx_pulselength, tx_repeat, tx_length)
Init ==
    \E p \in 1..(len_PROTOCOLS - 1), pl \in Pulses, r \in 1..MaxRepeat :
        /\ tx_enabled = FALSE
        /\ tx_proto = p
        /\ tx_pulselength = IF Truthy(pl) THEN pl[1]
                            ELSE PROTOCOLS[p].pulselength
        /\ tx_repeat_delay = PROTOCOLS[p].repeat_delay
        /\ tx_sync_count = PROTOCOLS[p].sync_count
        /\ tx_sync_delay = PROTOCOLS[p].sync_delay
        /\ tx_repeat = r
        /\ tx_length = DefaultLength
        /\ gpio_mode = "BCM"
        /\ gpio_direction = "NONE"
        /\ gpio_level = "NONE"
        /\ call = [NoArgs EXCEPT !.op = "__init__"]
        /\ ret = "None"
        /\ ops = <<>>
        /\ sent = <<>>
        /\ inner = "none"

EnableTx ==
    /\ call' = [NoArgs EXCEPT !.op = "enable_tx"]
    /\ Becomes(enable_tx(Self(0)))

DisableTx ==
    /\ call' = [NoArgs EXCEPT !.op = "disable_tx"]
    /\ Becomes(disable_tx(Self(0)))

Cleanup ==
    /\ call' = [NoArgs EXCEPT !.op = "cleanup"]
    /\ Becomes(cleanup(Self(0)))

TxCode ==
    \E a \in TxCodeArgs :
        /\ call' = [NoArgs EXCEPT !.op = "tx_code", !.codes = a.codes,
                                  !.p = a.p, !.pl = a.pl, !.len = a.len,
                                  !.intr = a.intr]
        /\ Becomes(tx_code(Self(a.intr), a.codes, a.p, a.pl, a.len))

TxShutterCmd ==
    \E device \in Tokens, command \in Commands, intr \in Interrupts :
        /\ call' = [NoArgs EXCEPT !.op = "tx_shutter_cmd",
                                  !.device = device, !.command = command,
                                  !.intr = intr]
        /\ Becomes(tx_shutter_cmd(Self(intr), device, command))

Next == EnableTx \/ DisableTx \/ Cleanup \/ TxCode \/ TxShutterCmd

Spec == Init /\ [][Next]_vars

----------------------------------------------------------------------------
(* Vocabulary of the properties.  Nothing below is used by the model.      *)

Max(a, b) == IF a >= b THEN a ELSE b

\* the number of entries of a sequence that lie in the set S
Occurrences(seq, S) == Cardinality({i \in 1..Len(seq) : seq[i] \in S})

IsWrite(e) == e.op = "output"

NoWrites == \A i \in 1..Len(ops) : ~IsWrite(ops[i])

NumWrites == Cardinality({i \in 1..Len(ops) : IsWrite(ops[i])})

\* the session is Armed: enabled, and the pin is an output
Armed == tx_enabled /\ gpio_direction = "OUT" /\ gpio_mode = "BCM"

\* the key contains the token: the token lies between a prefix and a suffix
KeyContains(key, token) ==
    \E a \in 0..Len(key) :
        /\ a + Len(token) <= Len(key)
        /\ \A j \in 1..Len(token) : key[a + j] = token[j]

\* the device groups a token and a command name resolve to, as table rows
Matching(device, command) ==
    {i \in 1..Len(DEVICE_CODES) :
        /\ KeyContains(DEVICE_CODES[i].dev, device)
        /\ command \in DOMAIN DEVICE_CODES[i].cmds}

\* the k-th smallest member of a set of numbers
Kth(S, k) == CHOOSE x \in S : Cardinality({y \in S : y < x}) = k - 1

\* bit j of a code (bit 0 is the least significant)
BitOf(code, j) ==
    IF j < 20 THEN (code[2] \div 2^j) % 2 ELSE (code[1] \div 2^(j - 20)) % 2

\* the natural bit length of a code: the least k with value < 2^k
BitLen(code) ==
    LET bl(n) == CHOOSE k \in 0..30 : n < 2^k /\ (k = 0 \/ n >= 2^(k - 1))
    IN  IF code[1] = 0 THEN bl(code[2]) ELSE 20 + bl(code[1])

\* the number of digits of a code written in at least w digits
Digits(code, w) == Max(w, BitLen(code))

\* the shape of one repetition block in the log, for the session's fields
SyncDelaySteps == IF tx_sync_delay > 0 THEN 1 ELSE 0

BlockWrites(w) == 2 * tx_sync_count + SyncDelaySteps + 2 * w + 1

BlockSteps(w) == tx_sync_count + SyncDelaySteps + w + 1

High(us) == Op("output", "HIGH", us)

Low(us) == Op("output", "LOW", us)

\* the w data-bit pairs of the block that starts after log entry base are
\* the pairs of the digits of code under protocol P and the pulse length
DataPairs(log, base, code, w, P) ==
    LET first == base + 2 * tx_sync_count + SyncDelaySteps
        digits == Digits(code, w)
    IN  \A i \in 0..(w - 1) :
        LET at == first + 2 * i
            one == BitOf(code, digits - 1 - i) = 1
        IN  /\ at + 2 <= Len(log)
            /\ log[at + 1] = High((IF one THEN P.one_high ELSE P.zero_high)
                                  * tx_pulselength)
            /\ log[at + 2] = Low((IF one THEN P.one_low ELSE P.zero_low)
                                 * tx_pulselength)

\* the sync pulses of the block that starts after log entry base
SyncPairs(log, base, P) ==
    \A x \in 0..(tx_sync_count - 1) :
        /\ base + 2 * x + 2 <= Len(log)
        /\ log[base + 2 * x + 1] = High(P.sync_high)
        /\ log[base + 2 * x + 2] = Low(P.sync_low)

IsShutter == call.op = "tx_shutter_cmd"

IsTxCode == call.op = "tx_code"

----------------------------------------------------------------------------
(* C1: every tx_shutter_cmd call whose token and command resolve to at     *)
(* least one code returns True and performs exactly one configure-as-      *)
(* output, first, then the transmission of the codes of exactly the        *)
(* matching groups in table order, tx_repeat blocks each, then exactly one *)
(* configure-as-input: k matching groups give k codes inside one bracket.  *)
(* C1_Bracket says this of the call the state records.                     *)
C1_Bracket ==
    LET M == Matching(call.device, call.command)
        n == Cardinality(M)
        B == BlockWrites(DefaultLength)
        last == 1 + n * tx_repeat * B
    IN  /\ ret = "True"
        /\ Occurrences(ops, {Op("setup", "OUT", 0)}) = 1
        /\ Occurrences(ops, {Op("setup", "IN", 0)}) = 1
        /\ NumWrites = n * tx_repeat * B
        /\ Len(ops) >= last + 1
        /\ ops[1] = Op("setup", "OUT", 0)
        /\ \A i \in 2..last : IsWrite(ops[i])
        /\ ops[last + 1] = Op("setup", "IN", 0)
        /\ \A k \in 1..n : \A r \in 0..(tx_repeat - 1) :
              DataPairs(ops, 1 + ((k - 1) * tx_repeat + r) * B,
                        DEVICE_CODES[Kth(M, k)].cmds[call.command],
                        DefaultLength, PROTOCOLS[tx_proto])

\* C1, stated for the calls that find the session Idle, that no interrupt
\* reaches, and that follow the construction or another tx_shutter_cmd
\* call, which are among the calls the claim is about: each is one bracket
C1_OneBracketPerCall ==
    [][ (/\ call.op \in {"__init__", "tx_shutter_cmd"}
         /\ call'.op = "tx_shutter_cmd"
         /\ Matching(call'.device, call'.command) # {}
         /\ ~tx_enabled
         /\ call'.intr = 0)
        => C1_Bracket' ]_vars

\* what does hold: a call that starts by configuring the pin as output (it
\* found the session Idle and the numbering scheme set) and that no
\* interrupt reaches is one such bracket
C1_BracketFromIdle ==
    (/\ IsShutter /\ Matching(call.device, call.command) # {}
     /\ ops # <<>> /\ ops[1] = Op("setup", "OUT", 0)
     /\ ret # "raise")
    => C1_Bracket

\* three groups were addressed in one bracket
C1_Witness ==
    /\ IsShutter /\ call.device = T_lroom /\ call.command = "up"
    /\ ret = "True"
    /\ Occurrences(ops, {Op("setup", "OUT", 0), Op("setup", "IN", 0)}) = 2
    /\ NumWrites = 3 * tx_repeat * BlockWrites(DefaultLength)

----------------------------------------------------------------------------
(* C2: a tx_shutter_cmd call that resolves no code returns True, performs  *)
(* no GPIO operation, and leaves the enabled flag, the configuration of    *)
(* the session and the state of the pin as they were.                      *)
C2_NoCodesNoOp ==
    [][ (call'.op = "tx_shutter_cmd"
         /\ Matching(call'.device, call'.command) = {})
        => /\ ret' = "True"
           /\ ops' = <<>>
           /\ UNCHANGED <<tx_enabled, tx_proto, tx_pulselength,
                          tx_repeat_delay, tx_sync_count, tx_sync_delay,
                          tx_repeat, tx_length,
                          gpio_mode, gpio_direction, gpio_level>> ]_vars

\* the no-op happened on an Armed session, for a token no key contains
C2_Witness ==
    /\ IsShutter /\ call.device = T_nonexistent
    /\ ret = "True" /\ ops = <<>> /\ Armed

\* the no-op happened for a matching group that lacks the command
C2_WitnessNoCommand ==
    /\ IsShutter /\ call.device = K_kitchen /\ call.command = "tilt"
    /\ ret = "True" /\ ops = <<>>

----------------------------------------------------------------------------
----------------------------------------------------------------------------
(* C4: whenever a tx_shutter_cmd call has configured the pin as output,    *)
(* the session is Idle when the call returns or raises: tx_enabled is      *)
(* false and the pin is no longer an output.                               *)
C4_IdleAfterShutter ==
    IsShutter /\ (\E i \in 1..Len(ops) : ops[i] = Op("setup", "OUT", 0))
        => ~tx_enabled /\ gpio_direction # "OUT"

----------------------------------------------------------------------------
(* C5: a tx_shutter_cmd call whose tx_code call returned False returns     *)
(* False itself.                                                           *)
C5_FailurePropagates ==
    IsShutter /\ inner = "False" => ret = "False"

\* the case of C5 does not occur: tx_code resets the protocol to 1 and runs
\* right after enable_tx, so inside tx_shutter_cmd it never returns False
C5_InnerNeverFails == inner # "False"

----------------------------------------------------------------------------
(* C6: a tx_code call given a code whose natural bit length exceeds the    *)
(* width returns False and transmits no data bit of that code: with k the  *)
(* first such code of the list, at most the (k - 1) * tx_repeat * width    *)
(* data bits of the codes before it are sent.                              *)
C6_TooWideFails ==
    LET wide == {k \in 1..Len(call.codes) : BitLen(call.codes[k]) > tx_length}
    IN  IsTxCode /\ wide # {}
        => /\ ret = "False"
           /\ Occurrences(sent, {"0", "1"})
                  <= (Kth(wide, 1) - 1) * tx_repeat * tx_length

----------------------------------------------------------------------------
(* C7: for the width w > 0 of a tx_code call and each of its codes c with  *)
(* 0 <= c < 2^w, the encoded string has exactly w characters and its i-th  *)
(* character (0-based, from the left) is bit w-1-i of c: most significant  *)
(* bit first, zeros on the left; and these are the data bits the call      *)
(* sends for the code when it returns True.                                *)
C7_EncodeMsbFirst ==
    IsTxCode =>
        \A k \in 1..Len(call.codes) :
            LET c == call.codes[k]
                w == tx_length
                s == format_b(c, w)
                digit(i) == IF BitOf(c, w - 1 - i) = 1 THEN "1" ELSE "0"
                block == (k - 1) * tx_repeat * BlockSteps(w)
                         + tx_sync_count + SyncDelaySteps
            IN  BitLen(c) <= w =>
                    /\ w > 0
                    /\ Len(s) = w
                    /\ \A i \in 0..(w - 1) : s[i + 1] = digit(i)
                    /\ ret = "True" =>
                          \A i \in 0..(w - 1) : sent[block + i + 1] = digit(i)

\* 2^40 - 1 was sent as 40 ones
C7_Witness ==
    /\ IsTxCode /\ ret = "True" /\ tx_length = DefaultLength
    /\ call.codes = << <<Limb - 1, Limb - 1>> >>
    /\ Occurrences(sent, {"1"}) = DefaultLength * tx_repeat
    /\ Occurrences(sent, {"0"}) = 0

\* a narrow code was padded on the left: 1 in two bits is sent as 0, 1
C7_WitnessPadded ==
    /\ IsTxCode /\ ret = "True" /\ tx_length = 2
    /\ call.codes = <<Code(1)>>
    /\ Occurrences(sent, {"0"}) = tx_repeat

----------------------------------------------------------------------------
(* C8: in every repetition block a tx_code call emits on an Armed session  *)
(* with a valid protocol P, and that no interrupt reaches, the data-bit    *)
(* portion is exactly tx_length (HIGH, LOW) pairs in bit order, the pair   *)
(* of a 0 lasting (P.zero_high, P.zero_low) x tx_pulselength and the pair  *)
(* of a 1 lasting (P.one_high, P.one_low) x tx_pulselength, and each sync  *)
(* pulse before it lasts (P.sync_high, P.sync_low) microseconds, unscaled. *)
C8_PulseDurations ==
    (IsTxCode /\ Armed /\ 0 < tx_proto /\ tx_proto < len_PROTOCOLS
              /\ call.intr = 0)
    => LET B == BlockWrites(tx_length)
           P == PROTOCOLS[tx_proto]
       IN  \A k \in 1..Len(call.codes) : \A r \in 0..(tx_repeat - 1) :
              LET base == ((k - 1) * tx_repeat + r) * B
              IN  /\ base + B <= Len(ops)
                  /\ \A i \in (base + 1)..(base + B) : IsWrite(ops[i])
                  /\ SyncPairs(ops, base, P)
                  /\ DataPairs(ops, base, call.codes[k], tx_length, P)

\* two codes went out under protocol 2 with an overridden pulse length
C8_Witness ==
    /\ IsTxCode /\ Armed /\ call.intr = 0 /\ ret = "True"
    /\ tx_proto = 2 /\ tx_pulselength = PulseOverride
    /\ Len(call.codes) = 2
    /\ Len(ops) = 2 * tx_repeat * BlockWrites(tx_length)

----------------------------------------------------------------------------
(* C9: a tx_code call that returns True for n codes and repeat count R     *)
(* emits exactly n x R repetition blocks, each ended by exactly one        *)
(* (LOW, tx_repeat_delay) pause; block b (from 0) carries the bits of code *)
(* number b \div R + 1 of the list, so the codes go out in list order and  *)
(* the R repetitions of a code are consecutive.                            *)
C9_RepetitionBlocks ==
    (IsTxCode /\ ret = "True")
    => LET n == Len(call.codes)
           w == tx_length
           B == BlockWrites(w)
           S == BlockSteps(w)
       IN  /\ Len(ops) = n * tx_repeat * B
           /\ Len(sent) = n * tx_repeat * S
           /\ Occurrences(sent, {"|"}) = n * tx_repeat
           /\ \A b \in 0..(n * tx_repeat - 1) :
                 LET c == call.codes[(b \div tx_repeat) + 1]
                     digits == Digits(c, w)
                 IN  /\ ops[(b + 1) * B] = Low(tx_repeat_delay)
                     /\ sent[(b + 1) * S] = "|"
                     /\ \A j \in 1..(S - 1) : sent[b * S + j] # "|"
                     /\ \A i \in 0..(w - 1) :
                           sent[b * S + tx_sync_count + SyncDelaySteps + i + 1]
                             = IF BitOf(c, digits - 1 - i) = 1
                               THEN "1" ELSE "0"

\* two different codes were sent twice each
C9_Witness ==
    /\ IsTxCode /\ ret = "True" /\ tx_repeat = 2
    /\ call.codes = <<Code(1), Code(2)>>
    /\ Occurrences(sent, {"|"}) = 4

----------------------------------------------------------------------------
(* C10: a tx_code call given a protocol index that is 0 or outside the     *)
(* table returns False and writes no level to the pin.  Stated for the     *)
(* calls that have a code to send.                                         *)
C10_InvalidProtocolFails ==
    (/\ IsTxCode /\ call.codes # <<>> /\ call.p # None
     /\ (call.p[1] <= 0 \/ call.p[1] >= len_PROTOCOLS))
    => ret = "False" /\ NoWrites

\* what does hold: an index past the table is refused without a pin write
C10_PastTheTableFails ==
    (/\ IsTxCode /\ call.codes # <<>> /\ call.p # None
     /\ call.p[1] >= len_PROTOCOLS)
    => ret = "False" /\ NoWrites /\ tx_proto = call.p[1]

----------------------------------------------------------------------------
(* C11: a tx_code call that is given no protocol and no pulse length uses  *)
(* the protocol and the pulse length the session had before the call (from *)
(* the construction or an earlier call) and leaves both unchanged.         *)
C11_DefaultsKept ==
    [][ (call'.op = "tx_code" /\ call'.p = None /\ call'.pl = None)
        => /\ tx_proto' = tx_proto
           /\ tx_pulselength' = tx_pulselength ]_vars

\* what does hold: the pulse length is the override when one is given and
\* the session's pulse length otherwise, whatever the protocol; the
\* protocol is the override when one is given and 1 otherwise
C11_PulseLengthKept ==
    [][ call'.op = "tx_code"
        => /\ tx_pulselength' = IF Truthy(call'.pl) THEN call'.pl[1]
                                ELSE tx_pulselength
           /\ tx_proto' = IF Truthy(call'.p) THEN call'.p[1] ELSE 1 ]_vars

----------------------------------------------------------------------------
C12_WitnessEnable ==
    /\ call.op = "enable_tx" /\ ret = "True" /\ ops = <<>> /\ Armed

----------------------------------------------------------------------------
(* C13: a tx_code call that transmits under protocol index p uses the      *)
(* timing constants of PROTOCOLS[p]: each repetition has                   *)
(* PROTOCOLS[p].sync_count sync pulses, a pause of PROTOCOLS[p].sync_delay *)
(* after them when that is positive, and ends in a pause of                *)
(* PROTOCOLS[p].repeat_delay, also when p is not the protocol the session  *)
(* was constructed with.                                                   *)
C13_SelectedProtocolTimings ==
    (/\ IsTxCode /\ Armed /\ call.intr = 0 /\ call.codes # <<>>
     /\ 0 < tx_proto /\ tx_proto < len_PROTOCOLS)
    => LET P == PROTOCOLS[tx_proto]
           blocks == Len(call.codes) * tx_repeat
       IN  /\ Occurrences(sent, {"$"}) = blocks * P.sync_count
           /\ Occurrences(sent, {"&"})
                  = blocks * (IF P.sync_delay > 0 THEN 1 ELSE 0)
           /\ Occurrences(sent, {"|"}) = blocks
           /\ Occurrences(ops, {Low(P.repeat_delay)}) = blocks

\* what does hold: the three timing fields are those of the construction
\* for the whole life of the session; no call assigns them
C13_TimingsNeverChange ==
    [][UNCHANGED <<tx_repeat_delay, tx_sync_count, tx_sync_delay>>]_vars

----------------------------------------------------------------------------
(* C14: in every reachable state tx_enabled is true exactly when the pin   *)
(* is configured as output, and the calls that wrote a level to the pin    *)
(* did so with tx_enabled true.                                            *)
C14_EnabledIffOutput ==
    /\ tx_enabled <=> gpio_direction = "OUT"
    /\ (IsTxCode /\ ~NoWrites) => tx_enabled

\* what does hold: the pin is an output only while tx_enabled is true, and
\* a tx_code call that wrote a level ran Armed
C14_OutputOnlyWhileEnabled ==
    /\ gpio_direction = "OUT" => tx_enabled
    /\ (IsTxCode /\ ~NoWrites) => Armed

----------------------------------------------------------------------------
(* C15: when a pulse step of a tx_code call returns False, the call        *)
(* returns False and that step is the last one it started: the pin writes  *)
(* of the call are exactly those of the steps completed before it (two for *)
(* a sync pulse or a data bit, one for a pause), so the failed step wrote  *)
(* nothing and no bit, repetition or code was attempted after it.          *)
C15_FailureAborts ==
    (IsTxCode /\ ret = "False")
    => LET done == SubSeq(sent, 1, Len(sent) - 1)
       IN  /\ sent # <<>>
           /\ Len(ops) = NumWrites
           /\ NumWrites = 2 * Occurrences(done, {"$", "0", "1"})
                          + Occurrences(done, {"&", "|"})
           /\ Len(sent) <= Len(call.codes) * tx_repeat
                           * BlockSteps(tx_length)

\* an Armed call with two codes to send twice failed at its first step, on
\* a protocol index past the table
C15_Witness ==
    /\ IsTxCode /\ ret = "False" /\ Armed
    /\ Len(call.codes) = 2 /\ tx_repeat = 2
    /\ Len(sent) = 1 /\ ops = <<>>

----------------------------------------------------------------------------
(* C16: the last level written to the pin is LOW whenever a tx_code call   *)
(* returns, True or False, and whenever a call has reconfigured the pin    *)
(* from output to input.                                                   *)
C16_LastLevelLow ==
    /\ (IsTxCode /\ ret \in {"True", "False"}) => gpio_level # "HIGH"
    /\ (\E i \in 1..Len(ops) : ops[i] = Op("setup", "IN", 0))
       => gpio_level # "HIGH"

\* what does hold: in a call that no exception leaves, every write of HIGH
\* is followed at once by a write of LOW, and a call that wrote ends LOW
C16_HighThenLow ==
    ret # "raise"
    => /\ \A i \in 1..Len(ops) :
             ops[i].op = "output" /\ ops[i].arg = "HIGH"
             => i < Len(ops) /\ ops[i + 1].op = "output"
                             /\ ops[i + 1].arg = "LOW"
       /\ ~NoWrites => gpio_level = "LOW"

----------------------------------------------------------------------------
(* C17: every tx_code call made on an Armed session with a valid protocol, *)
(* n codes and repeat count R, that no interrupt reaches, returns True     *)
(* after exactly n x R x (tx_sync_count + [1 if tx_sync_delay > 0] +       *)
(* tx_length + 1) pulse steps; every call that returns True has made       *)
(* exactly that many steps, and no call makes more.                        *)
C17_ExactSteps ==
    IsTxCode
    => LET steps == Len(call.codes) * tx_repeat * BlockSteps(tx_length)
           writes == Len(call.codes) * tx_repeat * BlockWrites(tx_length)
           completed == ret = "True" /\ Len(sent) = steps
                                     /\ Len(ops) = writes /\ NumWrites = writes
       IN  /\ (Armed /\ 0 < tx_proto /\ tx_proto < len_PROTOCOLS
                     /\ call.intr = 0) => completed
           /\ ret = "True" => completed
           /\ Len(sent) <= steps

\* two codes went out twice each with a sync delay in every repetition
C17_Witness ==
    /\ IsTxCode /\ Armed /\ call.intr = 0 /\ ret = "True"
    /\ tx_sync_delay > 0 /\ tx_repeat = 2 /\ Len(call.codes) = 2
    /\ Len(sent) = 4 * (tx_sync_count + 1 + tx_length + 1)

----------------------------------------------------------------------------
(* C18: a tx_shutter_cmd call that follows a tx_shutter_cmd call that      *)
(* transmitted attempts every pin operation with the numbering scheme set  *)
(* (none is refused for want of it), and leaves tx_enabled true only with  *)
(* the pin configured as output.                                           *)
C18_SchemeSetForEveryCall ==
    [][ (/\ call.op = "tx_shutter_cmd" /\ ret = "True" /\ ops # <<>>
         /\ call'.op = "tx_shutter_cmd")
        => /\ \A i \in 1..Len(ops') :
                 ops'[i] \notin {Op("raise", "setup", 0),
                                 Op("raise", "output", 0)}
           /\ tx_enabled' => gpio_direction' = "OUT" ]_vars

\* what does hold: every pin operation that took effect did so with the
\* numbering scheme set, and a call that ended in GPIO.cleanup() leaves it
\* unset
C18_CleanupReleasesScheme ==
    /\ (ops # <<>> /\ ops[Len(ops)].op = "cleanup") => gpio_mode = "UNSET"
    /\ (IsShutter /\ ret = "True" /\ ops # <<>>) => gpio_mode = "UNSET"

====
